---- MODULE Spec2Model ----
(***************************************************************************)
(* Model of the kasetter import collectors.                                *)
(*                                                                         *)
(*   SpecLutris  : one pass of LutrisSourceIterator.generator_builder      *)
(*                 (src/src/importer/sources/lutris_source.py)             *)
(*   SpecDesktop : one pass of DesktopSourceIterable.__iter__              *)
(*                 (src/src/importer/sources/desktop_source.py)            *)
(*   SpecWindow  : CartridgesWindow.filter_func and set_library_child      *)
(*                 (src/src/window.py)                                     *)
(*                                                                         *)
(* A generator is modelled by its position (pc): the consumer's next()     *)
(* resumes it, it runs to the next yield, to its end or to an exception.   *)
(* The rows of the foreign table are read one at a time by the cursor; the *)
(* content of each row is an input chosen when the cursor reaches it.      *)
(***************************************************************************)
EXTENDS Integers, Sequences, FiniteSets, TLC

\* ---------------------------------------------------------------- bounds
\* Rows of the foreign `games` table that one pass reads.
MaxRows == 2
\* Seconds the wall clock may advance during one pass.
MaxClock == 1
\* Directory entries that one pass of the Desktop collector examines.
MaxEntries == 2
\* Games in the store.
MaxGames == 2

\* ------------------------------------------------------------ SQL values
\* A value of a SQLite column: NULL, an integer or a text.
SqlNull == [t |-> "null", i |-> 0, s |-> ""]
SqlInt(n) == [t |-> "int", i |-> n, s |-> ""]
SqlText(x) == [t |-> "text", i |-> 0, s |-> x]

\* SQL's three-valued logic: "T", "F" and "U" (NULL).
And3(a, b) ==
  IF a = "F" \/ b = "F" THEN "F" ELSE IF a = "U" \/ b = "U" THEN "U" ELSE "T"

Or3(a, b) ==
  IF a = "T" \/ b = "T" THEN "T" ELSE IF a = "U" \/ b = "U" THEN "U" ELSE "F"

\* `x IS NOT NULL`: never NULL itself.
IsNotNull(v) == IF v.t = "null" THEN "F" ELSE "T"

\* `x IS NOT y`: the null-safe inequality, never NULL itself.
IsNot(v, w) == IF v = w THEN "F" ELSE "T"

\* A bare column used as a condition: NULL is unknown, a number is true when
\* it is not zero, a text that is no number casts to zero.
Truth(v) ==
  IF v.t = "null" THEN "U"
  ELSE IF v.t = "int" /\ v.i # 0 THEN "T" ELSE "F"

\* A Python bool bound to a named parameter arrives as the integer 1 or 0.
BindBool(b) == IF b THEN SqlInt(1) ELSE SqlInt(0)

\* The WHERE clause of the request, as SQLite evaluates it on one row.
WhereNoConfigPath(r, import_steam_param) ==
  And3(IsNotNull(r.name),
  And3(IsNotNull(r.slug),
  And3(Truth(r.installed),
       Or3(IsNot(r.runner, SqlText("steam")), Truth(import_steam_param)))))

Where(r, import_steam_param) ==
  And3(IsNotNull(r.name),
  And3(IsNotNull(r.slug),
  And3(IsNotNull(r.configPath),
  And3(Truth(r.installed),
       Or3(IsNot(r.runner, SqlText("steam")), Truth(import_steam_param))))))

\* A row is part of the result set when the WHERE clause is true (not NULL).
Selected(r, import_steam_param) == Where(r, import_steam_param) = "T"

\* What the cursor can find in the columns of one row of `games`.
RowContents ==
  [name : {SqlNull, SqlText("Bar"), SqlText("")},
   slug : {SqlNull, SqlText("bar")},
   configPath : {SqlNull, SqlText("bar-1")},
   installed : {SqlNull, SqlInt(0), SqlInt(1)},
   runner : {SqlNull, SqlText("steam"), SqlText("wine")},
   hidden : {SqlInt(0), SqlInt(1)}]

\* The row before the cursor has read any.
NoRow ==
  [id |-> 0, name |-> SqlNull, slug |-> SqlNull, configPath |-> SqlNull,
   installed |-> SqlNull, runner |-> SqlNull, hidden |-> SqlInt(0)]

WithId(n, c) ==
  [id |-> n, name |-> c.name, slug |-> c.slug, configPath |-> c.configPath,
   installed |-> c.installed, runner |-> c.runner, hidden |-> c.hidden]

\* ------------------------------------------------------- Python values
\* str() of a column value inside an f-string or str.format: NULL is None.
PyStr(v) == IF v.t = "null" THEN "None" ELSE IF v.t = "text" THEN v.s ELSE "int"

\* ----------------------------------------------- collaborators (not in src)
\* The collector's id, Source.id of the class named "Lutris".
SourceId == "lutris"

\* Location lookup data_location["pga.db"]: the resolved path, or absent when
\* no candidate root holds the file; the lookup does not raise.
Absent == "absent"
PgaDb == "~/.local/share/lutris/pga.db"
LocationLookup(resolved) == IF resolved THEN PgaDb ELSE Absent

\* Source.game_id_format, which LutrisSource.game_id_format extends: the
\* collector's id, an underscore and the game_id field.
BaseGameIdFormat(game_id) == <<SourceId, "_", game_id>>

\* cache_location["coverart"]: the resolved directory of the cover images.
CoverartDir == "~/.cache/lutris/coverart"

\* copy_db: the private temporary directory and the path of the copy in it.
TmpDir == "/tmp/tmpdir"
DbCopy == [parent |-> TmpDir, name |-> "pga.db"]
NoPath == [parent |-> "", name |-> ""]

\* --------------------------------------------- values before a pass starts
\* A key of the [Desktop Entry] group: <<>> when the file has no such key,
\* <<v>> when it has the value v.
NoKey == <<>>
Key(v) == <<v>>

\* A file that is never loaded: its content plays no part.
Unread ==
  [ok |-> FALSE, Categories |-> NoKey, Name |-> NoKey, Exec |-> NoKey,
   NoDisplay |-> NoKey]

\* No entry is under examination.
NoEntry ==
  [path |-> "", name |-> [stem |-> <<>>, suffix |-> ""], keyfile |-> Unread]

\* Nothing is at the yield.
NoItem ==
  [game |-> [source |-> "", added |-> 0, name |-> "", game_id |-> <<>>,
             executable |-> <<>>],
   bare |-> FALSE, additional_data |-> <<>>]

\* check_launch_command has not returned yet.
NoLaunch == [command |-> "", full_path |-> FALSE]

\* ------------------------------------------------------------- variables
VARIABLES
  now,             \* the wall clock, in seconds: int(time())
  pc,              \* position of the generator
  import_steam,    \* the setting lutris-import-steam
  data_resolved,   \* whether data_location found a root holding pga.db
  params,          \* the bound parameter :import_steam
  db_path,         \* the path copy_db returned
  tmp_dirs,        \* the temporary directories that exist on disk
  connection,      \* "none" or "open"
  cursor,          \* rows of `games` the cursor has read
  row,             \* the row the cursor read last
  records,         \* the items yielded so far
  added_time,      \* Desktop: the timestamp taken at line 41
  launch,          \* Desktop: what check_launch_command returned
  probes,          \* Desktop: the check commands run, with their outcome
  probe_calls,     \* Desktop: calls of check_launch_command
  dir,             \* Desktop: index of the search path being listed
  seen,            \* Desktop: file names already listed in this directory
  examined,        \* Desktop: entries examined in this pass
  entry,           \* Desktop: the directory entry under examination
  yielded,         \* Desktop: the item handed over at the yield
  stamps,          \* Desktop: the `added` of every game yielded, in order
  games,           \* Window: shared.store.games, in the order of values()
  library_overlay,        \* Window: the notices laid over the library
  hidden_library_overlay, \* Window: the notices laid over the hidden library
  child,           \* Window: the notice set_library_child chose last
  hidden_child     \* Window: the same for the hidden library

lutrisVars ==
  <<import_steam, data_resolved, params, db_path, tmp_dirs, connection,
    cursor, row>>

desktopVars ==
  <<added_time, launch, probes, probe_calls, dir, seen, examined, entry,
    yielded, stamps>>

windowVars ==
  <<games, library_overlay, hidden_library_overlay, child, hidden_child>>

vars == <<now, pc, records, lutrisVars, desktopVars, windowVars>>

\* set_library_child has not run yet.
Unset == "unset"

\* The window is not part of a collector's pass.
WindowIdle ==
  /\ games = <<>>
  /\ library_overlay = {}
  /\ hidden_library_overlay = {}
  /\ child = Unset
  /\ hidden_child = Unset

\* ------------------------------------------------------ Lutris collector
\* rmtree(str(db_path.parent))
RmtreeNothing(dirs, path) == dirs

Rmtree(dirs, path) == dirs \ {path}

\* int(time()) evaluated while building one record.
RowAdded(clock) == clock

\* url_format (line 90) with its game_id field filled in; executable_format
\* is built on it.
UrlFormat(game_id) == <<"lutris:rungameid/", game_id>>

\* A game_id_format that leaves the internal id out.
GameIdFormatSlugOnly(game_id, game_internal_id) ==
  BaseGameIdFormat(game_id) \o <<"_">>

\* game_id_format (lines 119-121) with both of its fields filled in.
GameIdFormat(game_id, game_internal_id) ==
  BaseGameIdFormat(game_id) \o <<"_", game_internal_id>>

\* The values of the Game built from one row, and its additional data.
MakeItem(r, clock) ==
  [game |->
     [added |-> RowAdded(clock),
      hidden |-> r.hidden,
      name |-> r.name,
      source |-> <<SourceId, "_", PyStr(r.runner)>>,
      game_id |-> GameIdFormat(PyStr(r.slug), r.id),
      executable |-> UrlFormat(PyStr(r.slug))],
   additional_data |->
     [local_image_path |-> <<CoverartDir, "/", PyStr(r.slug), ".jpg">>]]

\* The Desktop collector is not part of a Lutris pass.
DesktopIdle ==
  /\ added_time = 0
  /\ launch = NoLaunch
  /\ probes = <<>>
  /\ probe_calls = 0
  /\ dir = 0
  /\ seen = {}
  /\ examined = 0
  /\ entry = NoEntry
  /\ yielded = NoItem
  /\ stamps = <<>>

LutrisInit ==
  /\ now = 0
  /\ pc = "created"
  /\ import_steam \in BOOLEAN
  /\ data_resolved \in BOOLEAN
  /\ params = SqlNull
  /\ db_path = NoPath
  /\ tmp_dirs = {}
  /\ connection = "none"
  /\ cursor = 0
  /\ row = NoRow
  /\ records = <<>>
  /\ DesktopIdle
  /\ WindowIdle

\* The clock advances while the pass runs.
Tick ==
  /\ now < MaxClock
  /\ now' = now + 1
  /\ UNCHANGED <<pc, records, lutrisVars, desktopVars,
                 windowVars>>

\* First next(): lines 53-56, up to the cursor. The lookup of an unresolved
\* location hands copy_db an absent path, which it cannot copy: it raises,
\* before or after it made its directory. A resolved file may still fail to
\* copy, to open or to answer the query.
LutrisStart ==
  /\ pc = "created"
  /\ params' = BindBool(import_steam)
  /\ \/ /\ LocationLookup(data_resolved) = Absent
        /\ pc' = "raised"
        /\ \E made \in BOOLEAN : tmp_dirs' = IF made THEN {TmpDir} ELSE {}
        /\ UNCHANGED <<db_path, connection>>
     \/ /\ LocationLookup(data_resolved) # Absent
        /\ \E outcome \in {"copy_failed", "connect_failed", "execute_failed", "ok"} :
             \/ /\ outcome = "copy_failed"
                /\ pc' = "raised"
                /\ \E made \in BOOLEAN : tmp_dirs' = IF made THEN {TmpDir} ELSE {}
                /\ UNCHANGED <<db_path, connection>>
             \/ /\ outcome = "connect_failed"
                /\ pc' = "raised"
                /\ tmp_dirs' = {TmpDir}
                /\ db_path' = DbCopy
                /\ UNCHANGED connection
             \/ /\ outcome = "execute_failed"
                /\ pc' = "raised"
                /\ tmp_dirs' = {TmpDir}
                /\ db_path' = DbCopy
                /\ connection' = "open"
             \/ /\ outcome = "ok"
                /\ pc' = "running"
                /\ tmp_dirs' = {TmpDir}
                /\ db_path' = DbCopy
                /\ connection' = "open"
  /\ UNCHANGED <<now, import_steam, data_resolved, cursor, row, records,
                 desktopVars,
                 windowVars>>

\* `for row in cursor`: the cursor reads the next row of the table; a selected
\* row is turned into a record and yielded (lines 59-79), any other is passed.
LutrisStep ==
  /\ pc = "running"
  /\ cursor < MaxRows
  /\ \E c \in RowContents :
       LET r == WithId(cursor + 1, c) IN
       /\ row' = r
       /\ cursor' = cursor + 1
       /\ IF Selected(r, params)
          THEN /\ records' = Append(records, MakeItem(r, now))
               /\ pc' = "suspended"
          ELSE /\ records' = records
               /\ pc' = "running"
  /\ UNCHANGED <<now, import_steam, data_resolved, params, db_path, tmp_dirs,
                 connection, desktopVars,
                 windowVars>>

\* Reading or processing a row raises (a damaged page of the copy, a failing
\* Game constructor): nothing catches it in the generator.
LutrisRowError ==
  /\ pc = "running"
  /\ pc' = "raised"
  /\ UNCHANGED <<now, records, lutrisVars, desktopVars,
                 windowVars>>

\* The cursor is exhausted: line 82, then the generator returns.
LutrisExhaust ==
  /\ pc = "running"
  /\ tmp_dirs' = Rmtree(tmp_dirs, db_path.parent)
  /\ pc' = "done"
  /\ UNCHANGED <<now, import_steam, data_resolved, params, db_path,
                 connection, cursor, row, records, desktopVars,
                 windowVars>>

\* The consumer asks for the next item.
LutrisNext ==
  /\ pc = "suspended"
  /\ pc' = "running"
  /\ UNCHANGED <<now, records, lutrisVars, desktopVars,
                 windowVars>>

\* The consumer drops the generator before it is exhausted: GeneratorExit is
\* raised at the yield, where no finally clause waits for it.
LutrisAbandon ==
  /\ pc \in {"created", "suspended"}
  /\ pc' = "closed"
  /\ UNCHANGED <<now, records, lutrisVars, desktopVars,
                 windowVars>>

LutrisNextStep ==
  \/ Tick
  \/ LutrisStart
  \/ LutrisStep
  \/ LutrisRowError
  \/ LutrisExhaust
  \/ LutrisNext
  \/ LutrisAbandon

SpecLutris == LutrisInit /\ [][LutrisNextStep]_vars

LutrisTerminal == pc \in {"done", "raised", "closed"}

\* The Lutris collector is not part of a Desktop pass.
LutrisIdle ==
  /\ import_steam = FALSE
  /\ data_resolved = FALSE
  /\ params = SqlNull
  /\ db_path = NoPath
  /\ tmp_dirs = {}
  /\ connection = "none"
  /\ cursor = 0
  /\ row = NoRow

\* -------------------------------------------------- desktop entry files
\* The fixed markers of the other sources (lines 104, 108, 112).
SteamMarker == "steam://rungameid/"
HeroicMarker == "heroic://launch/"
BottlesMarker == "bottles-cli "
\* The placeholder marker the Exec value is split at (line 98).
Placeholder == " %"

\* Exec values, as the pieces of the string: a marker and the placeholder
\* marker are pieces of their own.
ExecValues ==
  {<<"foo">>,
   <<"foo", Placeholder, "U">>,
   <<"steam ", SteamMarker, "42">>,
   <<"xdg-open ", HeroicMarker, "foo">>,
   <<BottlesMarker, "run -p foo">>,
   <<"foo", Placeholder, "u ", SteamMarker, "42">>}

\* The content of a key file: whether load_from_file accepts it, and its keys.
KeyFiles ==
  [ok : {TRUE},
   Categories : {NoKey, Key(<<"Utility">>), Key(<<"Game">>),
                 Key(<<"Utility", "Game">>)},
   Name : {NoKey, Key("Foo"), Key("")},
   Exec : {NoKey} \cup {Key(x) : x \in ExecValues},
   NoDisplay : {NoKey, Key("true"), Key("false"), Key("yes")}]
  \cup
  [ok : {FALSE}, Categories : {NoKey}, Name : {NoKey}, Exec : {NoKey},
   NoDisplay : {NoKey}]

\* File names: the stem, as its pieces, and the suffix.
DesktopNames ==
  {[stem |-> <<"foo">>, suffix |-> ".desktop"],
   [stem |-> <<"my game">>, suffix |-> ".desktop"],
   [stem |-> <<"net.lutris.", "foo">>, suffix |-> ".desktop"]}

OtherNames == {[stem |-> <<"foo">>, suffix |-> ".txt"]}

\* What path.iterdir() can hand over.
Files ==
  [name : DesktopNames, keyfile : KeyFiles]
  \cup [name : OtherNames, keyfile : {Unread}]

\* search_paths (lines 45-51): the user's data directory, a host directory
\* and, among GLib's system data directories, the application's own prefix.
SearchPaths == <<"/home/user/.local/share", "/app/share", "/run/host/usr/share">>

\* str(path).startswith("/app/")
UnderApp(p) == p \in {"/app/share"}

\* ------------------------------------------------------ string helpers
\* x in s, for a marker x and a string s given by its pieces.
Contains(s, x) == \E i \in 1..Len(s) : s[i] = x

\* s.split(x)[0]: what stands before the first x, all of s when it has none.
SplitFirst(s, x) ==
  IF Contains(s, x)
  THEN SubSeq(s, 1, (CHOOSE i \in 1..Len(s) :
                       s[i] = x /\ \A j \in 1..(i - 1) : s[j] # x) - 1)
  ELSE s

\* Pieces holding a character outside shlex's safe set [A-Za-z0-9@%+=:,./-].
UnsafePieces == {"my game"}

\* shlex.quote: the string itself when every character is safe, else the
\* string between single quotes (no piece holds a single quote).
ShlexQuote(s) ==
  IF s # <<>> /\ \A i \in 1..Len(s) : s[i] \notin UnsafePieces
  THEN s
  ELSE <<"'">> \o s \o <<"'">>

\* GLib.KeyFile.get_boolean: "ok" with the value, or "error" (a GError) when
\* the key is missing or its value is no boolean.
GetBoolean(k) ==
  IF k = NoKey THEN [status |-> "error", value |-> FALSE]
  ELSE IF k[1] \in {"true", "1"} THEN [status |-> "ok", value |-> TRUE]
  ELSE IF k[1] \in {"false", "0"} THEN [status |-> "ok", value |-> FALSE]
  ELSE [status |-> "error", value |-> FALSE]

\* ------------------------------------------------ check_launch_command
\* commands (line 167): the command and its full_path flag, in probe order.
Commands ==
  <<[command |-> "gio launch", full_path |-> TRUE],
    [command |-> "gtk4-launch", full_path |-> FALSE],
    [command |-> "gtk-launch", full_path |-> FALSE]>>

\* The loop of lines 170-186 from candidate i on. `available` holds the
\* commands whose check command exits with 0 (run directly or relayed to the
\* host, lines 172-178); `log` holds the checks run so far.
RECURSIVE ProbeFrom(_, _, _)
ProbeFrom(i, available, log) ==
  IF i > Len(Commands)
  THEN [result |-> Commands[3], probed |-> log]
  ELSE LET c == Commands[i]
           ran == Append(log, [command |-> c.command,
                               ok |-> c.command \in available])
       IN IF c.command \in available
          THEN [result |-> c, probed |-> ran]
          ELSE ProbeFrom(i + 1, available, ran)

\* A prober that does not stop at the first command it finds.
check_launch_command_keeps_probing(available) ==
  [result |->
     IF \E i \in 1..Len(Commands) : Commands[i].command \in available
     THEN Commands[CHOOSE i \in 1..Len(Commands) :
                     /\ Commands[i].command \in available
                     /\ \A j \in 1..(i - 1) : Commands[j].command \notin available]
     ELSE Commands[3],
   probed |-> [i \in 1..Len(Commands) |->
                 [command |-> Commands[i].command,
                  ok |-> Commands[i].command \in available]]]

check_launch_command(available) == ProbeFrom(1, available, <<>>)

\* --------------------------------------------------- Desktop collector
\* str(entry): the path of an entry, by its pieces.
EntryPath(e) == <<e.path, "/applications/">> \o e.name.stem \o <<e.name.suffix>>

\* Lines 82-84: the file name marks a game of Lutris.
IsLutrisEntry(e) == Head(e.name.stem) = "net.lutris."

\* Lines 91-94, with the GError of a missing Categories key (line 100).
LacksGameNever(keyfile) == FALSE

LacksGame(keyfile) ==
  \/ keyfile.Categories = NoKey
  \/ ~Contains(keyfile.Categories[1], "Game")

\* Lines 103-113: the executable delegates to another source.
IsOtherSourceNoHeroic(executable) ==
  \/ Contains(executable, SteamMarker)
  \/ Contains(executable, BottlesMarker)

IsOtherSource(executable) ==
  \/ Contains(executable, SteamMarker)
  \/ Contains(executable, HeroicMarker)
  \/ Contains(executable, BottlesMarker)

\* Lines 115-119: NoDisplay is read as a boolean; a GError is passed over.
IsNoDisplayOrError(keyfile) ==
  LET b == GetBoolean(keyfile.NoDisplay) IN b.status = "error" \/ b.value

IsNoDisplay(keyfile) ==
  LET b == GetBoolean(keyfile.NoDisplay) IN b.status = "ok" /\ b.value

\* Lines 79-119: whether the entry gets past every `continue`.
Passes(e) ==
  IF e.name.suffix # ".desktop" THEN FALSE
  ELSE IF IsLutrisEntry(e) THEN FALSE
  ELSE IF ~e.keyfile.ok THEN FALSE
  ELSE IF LacksGame(e.keyfile) THEN FALSE
  ELSE IF e.keyfile.Name = NoKey THEN FALSE
  ELSE IF e.keyfile.Exec = NoKey THEN FALSE
  ELSE LET executable == SplitFirst(e.keyfile.Exec[1], Placeholder) IN
       IF IsOtherSource(executable) THEN FALSE
       ELSE IF IsNoDisplay(e.keyfile) THEN FALSE
       ELSE TRUE

\* Line 129: the argument handed to the launch command.
LaunchArgumentSwapped(e, full_path) ==
  IF full_path THEN e.name.stem ELSE EntryPath(e)

LaunchArgument(e, full_path) ==
  IF full_path THEN EntryPath(e) ELSE e.name.stem

\* Line 123: the timestamp a game gets is the one taken at line 41.
EntryAdded(taken, clock) == taken

\* Lines 121-130: the values of the Game built from an entry.
DesktopGame(e, l, added) ==
  [source |-> "desktop",
   added |-> added,
   name |-> e.keyfile.Name[1],
   game_id |-> <<"desktop_", "sha3_256">> \o EntryPath(e),
   executable |-> <<l.command, " ">> \o ShlexQuote(LaunchArgument(e, l.full_path))]

\* Lines 133-163: what is yielded with the game. The Icon key and the icon
\* theme decide: no key yields the bare game; a value with a "/" yields it as
\* the icon path; a name yields what the theme finds, or nothing.
IconOutcomes == {"no_key", "path", "theme_found", "theme_missing"}

DesktopItem(e, l, added, icon) ==
  [game |-> DesktopGame(e, l, added),
   bare |-> icon = "no_key",
   additional_data |->
     IF icon = "path" THEN <<"local_icon_path", "/opt/foo/icon.png">>
     ELSE IF icon = "theme_found"
     THEN <<"local_icon_path", "/usr/share/icons/foo-icon.png">>
     ELSE <<>>]

DesktopInit ==
  /\ now = 0
  /\ pc = "created"
  /\ records = <<>>
  /\ added_time = 0
  /\ launch = NoLaunch
  /\ probes = <<>>
  /\ probe_calls = 0
  /\ dir = 0
  /\ seen = {}
  /\ examined = 0
  /\ entry = NoEntry
  /\ yielded = NoItem
  /\ stamps = <<>>
  /\ LutrisIdle
  /\ WindowIdle

DesktopTick ==
  /\ now < MaxClock
  /\ now' = now + 1
  /\ UNCHANGED <<pc, records, lutrisVars, desktopVars,
                 windowVars>>

\* First next(): lines 41-67. The timestamp is taken, the icon theme is set
\* up and the launch command is probed; which commands the host has is an
\* input.
DesktopStart ==
  /\ pc = "created"
  /\ added_time' = now
  /\ \E available \in SUBSET {Commands[i].command : i \in 1..Len(Commands)} :
       LET r == check_launch_command(available) IN
       /\ launch' = r.result
       /\ probes' = r.probed
  /\ probe_calls' = probe_calls + 1
  /\ pc' = "dirs"
  /\ UNCHANGED <<now, records, lutrisVars, dir, seen, examined, entry, yielded,
                 stamps,
                 windowVars>>

\* Lines 69-76: the next search path; it is listed unless it lies under /app/
\* or has no applications directory.
DesktopNextDir ==
  /\ pc = "dirs"
  /\ dir < Len(SearchPaths)
  /\ dir' = dir + 1
  /\ seen' = {}
  /\ \E is_dir \in BOOLEAN :
       pc' = IF UnderApp(SearchPaths[dir + 1]) \/ ~is_dir THEN "dirs" ELSE "scan"
  /\ UNCHANGED <<now, records, lutrisVars, added_time, launch, probes,
                 probe_calls, examined, entry, yielded, stamps,
                 windowVars>>

\* Lines 78-163 for the next entry of the directory: it is skipped, or a game
\* is built from it and yielded.
DesktopEntry ==
  /\ pc = "scan"
  /\ examined < MaxEntries
  /\ \E f \in Files :
       /\ f.name \notin seen
       /\ LET e == [path |-> SearchPaths[dir], name |-> f.name,
                    keyfile |-> f.keyfile]
          IN /\ entry' = e
             /\ seen' = seen \cup {f.name}
             /\ IF Passes(e)
                THEN /\ \E icon \in IconOutcomes :
                          yielded' = DesktopItem(e, launch,
                                                 EntryAdded(added_time, now), icon)
                     /\ stamps' = Append(stamps, yielded'.game.added)
                     /\ pc' = "suspended"
                ELSE /\ UNCHANGED <<yielded, stamps>>
                     /\ pc' = "skipped"
  /\ examined' = examined + 1
  /\ UNCHANGED <<now, records, lutrisVars, added_time, launch, probes,
                 probe_calls, dir,
                 windowVars>>

\* Back at the head of the loop of line 78: after a `continue`, or when the
\* consumer asks for the next item.
DesktopResume ==
  /\ pc \in {"skipped", "suspended"}
  /\ pc' = "scan"
  /\ entry' = NoEntry
  /\ yielded' = NoItem
  /\ UNCHANGED <<now, records, lutrisVars, added_time, launch, probes,
                 probe_calls, dir, seen, examined, stamps,
                 windowVars>>

\* path.iterdir() is exhausted.
DesktopEndDir ==
  /\ pc = "scan"
  /\ pc' = "dirs"
  /\ UNCHANGED <<now, records, lutrisVars, desktopVars,
                 windowVars>>

\* The search paths are exhausted: the generator returns.
DesktopFinish ==
  /\ pc = "dirs"
  /\ dir = Len(SearchPaths)
  /\ pc' = "done"
  /\ UNCHANGED <<now, records, lutrisVars, desktopVars,
                 windowVars>>

DesktopNextStep ==
  \/ DesktopTick
  \/ DesktopStart
  \/ DesktopNextDir
  \/ DesktopEntry
  \/ DesktopResume
  \/ DesktopEndDir
  \/ DesktopFinish

SpecDesktop == DesktopInit /\ [][DesktopNextStep]_vars

\* ====================================================== Lutris collector
\* C1: once copy_db has made the temporary snapshot directory, it is removed
\* on every way the pass can end (an exception while opening or querying the
\* copy, an exception while a row is processed, the consumer abandoning the
\* generator): no terminal state of a pass still has the directory.
C1_TmpDirRemovedOnEveryExit ==
  (LutrisTerminal /\ db_path = DbCopy) => db_path.parent \notin tmp_dirs

\* C2: when the sequence is driven to exhaustion without an error, the
\* directory of the copy is gone once the sequence reports it is finished, and
\* it is still there as long as rows are being read and yielded.
C2_RemovedAfterLastRow ==
  /\ pc = "done" => db_path = DbCopy /\ db_path.parent \notin tmp_dirs
  /\ pc \in {"running", "suspended"} => db_path.parent \in tmp_dirs

C2_Witness ==
  /\ pc = "done"
  /\ Len(records) = 2
  /\ tmp_dirs = {}

\* C3: with the data location unresolved the sequence is empty and ends
\* normally: nothing is raised, no snapshot copy is made, no database opened.
C3_UnresolvedIsEmpty ==
  ~data_resolved =>
    /\ pc # "raised"
    /\ tmp_dirs = {}
    /\ connection = "none"
    /\ records = <<>>

\* The rows the claim C4 says are emitted.
ClaimSelects(r, setting) ==
  /\ r.name # SqlNull
  /\ r.slug # SqlNull
  /\ r.configPath # SqlNull
  /\ r.installed.t = "int" /\ r.installed.i # 0
  /\ setting \/ r.runner # SqlText("steam")

\* C4: a row yields a record if and only if its name, slug and configPath are
\* not null, its installed flag is true and either lutris-import-steam is on
\* or its runner is not "steam"; such a row yields exactly one record, and a
\* step that reads no row yields none.
C4_EmittedIffSelected ==
  [][/\ (cursor' = cursor + 1 /\ pc' # "raised") =>
          IF ClaimSelects(row', import_steam)
          THEN /\ pc' = "suspended"
               /\ Len(records') = Len(records) + 1
               /\ SubSeq(records', 1, Len(records)) = records
               /\ records'[Len(records')].game.game_id[5] = row'.id
          ELSE records' = records
     /\ cursor' = cursor => records' = records]_vars

C4_Witness ==
  /\ pc = "done"
  /\ cursor = 2
  /\ Len(records) = 1
  /\ row.runner = SqlText("steam")
  /\ import_steam

\* C10: all records of one pass carry the same `added`, also when the clock
\* advances between two records.
C10_SameAdded ==
  \A i, j \in DOMAIN records : records[i].game.added = records[j].game.added

\* The Desktop half of C10: every game of a pass got the stamp of line 41.
DesktopSameAdded == \A i \in DOMAIN stamps : stamps[i] = added_time

\* ===================================================== Desktop collector
\* An entry has been examined: it was skipped, or it is at the yield.
Examined == pc \in {"skipped", "suspended"}

\* The executable token: the Exec value up to the first " %".
ClaimToken(e) == SplitFirst(e.keyfile.Exec[1], Placeholder)

ClaimHasMarker(e) ==
  /\ e.keyfile.Exec # NoKey
  /\ \E m \in {"steam://rungameid/", "heroic://launch/", "bottles-cli "} :
       Contains(ClaimToken(e), m)

ClaimHasGame(e) ==
  /\ e.keyfile.Categories # NoKey
  /\ Contains(e.keyfile.Categories[1], "Game")

\* The entry gets past every filter but those on Categories and NoDisplay.
ClaimOtherwiseFine(e) ==
  /\ e.name.suffix = ".desktop"
  /\ Head(e.name.stem) # "net.lutris."
  /\ e.keyfile.ok
  /\ e.keyfile.Name # NoKey
  /\ e.keyfile.Exec # NoKey
  /\ ~ClaimHasMarker(e)

\* C5: an entry whose executable token holds a marker of another source, and
\* an entry whose file name starts with "net.lutris.", yields no record,
\* whatever its other keys are.
C5_OtherSourcesSkipped ==
  (Examined /\ (ClaimHasMarker(entry) \/ Head(entry.name.stem) = "net.lutris."))
    => pc = "skipped" /\ yielded = NoItem

C5_Witness ==
  /\ pc = "skipped"
  /\ ClaimHasMarker(entry)
  /\ ClaimHasGame(entry)
  /\ entry.keyfile.Name # NoKey
  /\ entry.keyfile.NoDisplay = NoKey
  /\ Head(entry.name.stem) # "net.lutris."

\* Categories with "Game" added, everything else left as it is.
AddGame(e) ==
  [e EXCEPT !.keyfile.Categories =
     IF @ = NoKey THEN Key(<<"Game">>) ELSE Key(Append(@[1], "Game"))]

\* C6: an entry whose Categories lack "Game" yields no record; and when an
\* entry is excluded for that reason alone, the same entry with "Game" added
\* to Categories yields exactly one record.
C6_GameCategory ==
  [][examined' = examined + 1 =>
       /\ ~ClaimHasGame(entry') =>
            pc' = "skipped" /\ yielded' = NoItem /\ stamps' = stamps
       /\ \A c \in {NoKey, Key(<<"Utility">>)} :
            LET without == [entry' EXCEPT !.keyfile.Categories = c] IN
            ( /\ entry' = AddGame(without)
              /\ ClaimOtherwiseFine(without)
              /\ without.keyfile.NoDisplay # Key("true") )
            => /\ pc' = "suspended"
               /\ Len(stamps') = Len(stamps) + 1
               /\ yielded'.game.game_id
                    = <<"desktop_", "sha3_256">> \o EntryPath(entry')]_vars

C6_Witness ==
  /\ pc = "suspended"
  /\ entry.keyfile.Categories = Key(<<"Utility", "Game">>)
  /\ Len(stamps) = 1

\* C7: among the entries that pass every other filter, NoDisplay=true is
\* excluded; NoDisplay=false, no NoDisplay key and a malformed NoDisplay are
\* included, and the pass goes on.
C7_NoDisplay ==
  (Examined /\ ClaimOtherwiseFine(entry) /\ ClaimHasGame(entry)) =>
    IF entry.keyfile.NoDisplay = Key("true")
    THEN pc = "skipped" /\ yielded = NoItem
    ELSE pc = "suspended" /\ yielded # NoItem

C7_Witness ==
  /\ pc = "suspended"
  /\ entry.keyfile.NoDisplay = Key("yes")
  /\ yielded.game.name = "Foo"

\* C8, as claimed: the executable of every record is the probed command, one
\* space and the shell-escaped argument, which is the stem for the command
\* that resolves by id (gio launch, the one flagged TRUE) and the full path
\* for the commands that need a file path.
C8_StemForIdCommand ==
  pc = "suspended" =>
    yielded.game.executable
      = <<launch.command, " ">>
          \o ShlexQuote(IF launch.command = "gio launch"
                        THEN entry.name.stem
                        ELSE EntryPath(entry))

\* C8, amended: the argument is the entry's full path for gio launch and the
\* entry's stem for gtk4-launch and gtk-launch.
C8_PathForGioLaunch ==
  pc = "suspended" =>
    /\ launch.command \in {"gio launch", "gtk4-launch", "gtk-launch"}
    /\ yielded.game.executable
         = <<launch.command, " ">>
             \o (LET arg == IF launch.command = "gio launch"
                            THEN <<entry.path, "/applications/">>
                                   \o entry.name.stem \o <<entry.name.suffix>>
                            ELSE entry.name.stem
                 IN IF \E i \in 1..Len(arg) : arg[i] = "my game"
                    THEN <<"'">> \o arg \o <<"'">>
                    ELSE arg)

C8_Witness ==
  /\ pc = "suspended"
  /\ launch.command = "gio launch"
  /\ entry.name.stem = <<"my game">>

\* The probes ran in the fixed order and stopped at the first success.
ClaimProbeOrder ==
  /\ Len(probes) \in 1..3
  /\ \A i \in 1..Len(probes) :
       probes[i].command = <<"gio launch", "gtk4-launch", "gtk-launch">>[i]
  /\ \A i \in 1..(Len(probes) - 1) : ~probes[i].ok
  /\ probes[Len(probes)].ok => launch.command = probes[Len(probes)].command
  /\ ~probes[Len(probes)].ok => Len(probes) = 3 /\ launch.command = "gtk-launch"

ClaimProbedOnce ==
  /\ pc = "created" => probe_calls = 0 /\ examined = 0
  /\ pc # "created" => probe_calls = 1 /\ ClaimProbeOrder
  /\ pc = "suspended" => yielded.game.executable[1] = launch.command

\* C9, as claimed: the candidates are probed in the order gio launch,
\* gtk4-launch, gtk-launch up to the first success; when every probe fails
\* the result is gtk-launch marked as requiring a full file path; the prober
\* runs once per pass, before any entry, and every record uses its result.
C9_DefaultNeedsFullPath ==
  /\ ClaimProbedOnce
  /\ (pc # "created" /\ ~probes[Len(probes)].ok) => launch.full_path

\* C9, amended: as claimed, but the default gtk-launch is marked as taking
\* the bare stem (full_path is False), not a full file path.
C9_DefaultTakesStem ==
  /\ ClaimProbedOnce
  /\ (pc # "created" /\ ~probes[Len(probes)].ok) => ~launch.full_path

C9_Witness ==
  /\ pc = "suspended"
  /\ Len(probes) = 3
  /\ ~probes[3].ok
  /\ examined = 2

\* ============================================ records of both collectors
\* C11: every record has a populated game_id and a non-empty name; a desktop
\* entry whose Name is the empty string yields no record.
C11_NameNotEmpty ==
  pc = "suspended" =>
    /\ yielded.game.game_id # <<>>
    /\ yielded.game.name # ""
    /\ entry.keyfile.Name # Key("")

\* The Lutris half of C11: a row whose name is the empty string yields no
\* record.
LutrisNameNotEmpty ==
  \A i \in DOMAIN records :
    /\ records[i].game.game_id # <<>>
    /\ records[i].game.name # SqlText("")

\* The record at the yield is the one built from the row read last.
LastRecord == records[Len(records)]

\* The text of a column in a formatted string.
ClaimText(v) == IF v = SqlNull THEN "None" ELSE v.s

\* What C12 says of a record but for its executable.
ClaimRecordFields ==
  pc = "suspended" =>
    /\ LastRecord.game.source = <<"lutris", "_", ClaimText(row.runner)>>
    /\ LastRecord.game.game_id
         = <<"lutris", "_", ClaimText(row.slug), "_", row.id>>
    /\ LastRecord.game.hidden = row.hidden
    /\ DOMAIN LastRecord.additional_data = {"local_image_path"}
    /\ LastRecord.additional_data.local_image_path
         = <<"~/.cache/lutris/coverart", "/", ClaimText(row.slug), ".jpg">>

ClaimDistinctIds ==
  \A i, j \in DOMAIN records :
    i # j => records[i].game.game_id # records[j].game.game_id

\* C12, as claimed: the record of a selected row has the source, game_id,
\* hidden flag and cover path of its row, and an executable that holds
\* slug=<the row's slug>; no two rows get the same game_id.
C12_ExecutableHoldsSlugParameter ==
  /\ ClaimRecordFields
  /\ ClaimDistinctIds
  /\ pc = "suspended" =>
       \E i \in 1..(Len(LastRecord.game.executable) - 1) :
         /\ LastRecord.game.executable[i] = "slug="
         /\ LastRecord.game.executable[i + 1] = ClaimText(row.slug)

\* C12, amended: the executable is the URL lutris:rungameid/<the row's slug>,
\* with no slug= parameter in it.
C12_ExecutableIsRunGameUrl ==
  /\ ClaimRecordFields
  /\ ClaimDistinctIds
  /\ pc = "suspended" =>
       LET executable == LastRecord.game.executable IN
       /\ Len(executable) >= 2
       /\ SubSeq(executable, Len(executable) - 1, Len(executable))
            = <<"lutris:rungameid/", ClaimText(row.slug)>>
       /\ \A i \in 1..Len(executable) : executable[i] # "slug="

C12_Witness ==
  /\ pc = "suspended"
  /\ Len(records) = 2
  /\ records[1].game.name = records[2].game.name
  /\ row.runner = SqlText("wine")
  /\ row.hidden = SqlInt(1)

\* ================================================================ window
\* The notices of the two libraries (template children of the window).
notice_empty == "notice_empty"
notice_no_results == "notice_no_results"
hidden_notice_empty == "hidden_notice_empty"
hidden_notice_no_results == "hidden_notice_no_results"

\* No notice: Python's None.
None == "None"

\* Strings are sequences of characters here; str.lower() by character.
LowerChar(c) == IF c = "B" THEN "b" ELSE IF c = "Z" THEN "z" ELSE c

Lower(str) == [i \in 1..Len(str) |-> LowerChar(str[i])]

\* text in str
IsIn(text, str) ==
  \E i \in 1..(Len(str) - Len(text) + 1) :
    SubSeq(str, i, i + Len(text) - 1) = text

\* A developer that is None.
NoDeveloper == <<>>

\* The games a store can hold; `filtered` is false until filter_func sets it.
StoredGames ==
  [removed : BOOLEAN, blacklisted : BOOLEAN, hidden : BOOLEAN,
   filtered : {FALSE}, name : {<<"B", "a">>},
   developer : {NoDeveloper, <<"Z">>}]

\* What the visible search entry can hold.
SearchTexts == {<<>>, <<"B">>, <<"z">>, <<"q">>}

\* Lines 122-131, for one game that is neither removed nor blacklisted: the
\* notice of its library after the game, from the notice before it.
NextChildOrderBound(chosen, filtered, no_results) ==
  IF filtered THEN no_results ELSE None

NextChild(chosen, filtered, no_results) ==
  IF filtered /\ chosen # None THEN no_results ELSE None

\* Lines 117-131: the loop over shared.store.games.values(), from game i on;
\* c is [child, hidden_child].
RECURSIVE ChooseFrom(_, _, _)
ChooseFrom(i, store, c) ==
  IF i > Len(store) THEN c
  ELSE LET game == store[i] IN
       IF game.removed \/ game.blacklisted
       THEN ChooseFrom(i + 1, store, c)
       ELSE IF game.hidden
       THEN ChooseFrom(i + 1, store,
              [c EXCEPT !.hidden_child =
                 NextChild(@, game.filtered, hidden_notice_no_results)])
       ELSE ChooseFrom(i + 1, store,
              [c EXCEPT !.child =
                 NextChild(@, game.filtered, notice_no_results)])

Choose(store) ==
  ChooseFrom(1, store,
             [child |-> notice_empty, hidden_child |-> hidden_notice_empty])

\* Lines 133-147: the chosen notice is added to the overlay; with none chosen
\* both notices are taken off it (remove_from_overlay: a notice whose parent
\* is the overlay).
Overlaid(overlay, chosen, empty, no_results) ==
  IF chosen # None THEN overlay \cup {chosen} ELSE overlay \ {empty, no_results}

\* set_library_child as a whole, on the store as it is after the step.
SetLibraryChildOn(store) ==
  LET c == Choose(store) IN
  /\ child' = c.child
  /\ hidden_child' = c.hidden_child
  /\ library_overlay' =
       Overlaid(library_overlay, c.child, notice_empty, notice_no_results)
  /\ hidden_library_overlay' =
       Overlaid(hidden_library_overlay, c.hidden_child, hidden_notice_empty,
                hidden_notice_no_results)

\* Lines 161-164: whether the search text filters the game out.
Filtered(text, game) ==
  /\ text # <<>>
  /\ ~( \/ IsIn(text, Lower(game.name))
        \/ IF game.developer # NoDeveloper
           THEN IsIn(text, Lower(game.developer))
           ELSE FALSE )

WindowInit ==
  /\ now = 0
  /\ pc = "window"
  /\ records = <<>>
  /\ LutrisIdle
  /\ DesktopIdle
  /\ \E n \in 0..MaxGames : games \in [1..n -> StoredGames]
  /\ library_overlay = {}
  /\ hidden_library_overlay = {}
  /\ child = Unset
  /\ hidden_child = Unset

\* set_library_child, called on its own.
set_library_child ==
  /\ SetLibraryChildOn(games)
  /\ UNCHANGED <<now, pc, records, lutrisVars, desktopVars, games>>

\* filter_func for the game at position i: the text of the search entry of
\* the visible page is an input; the game's flag is set, then
\* set_library_child runs.
filter_func ==
  \E i \in DOMAIN games, entered \in SearchTexts :
    LET text == Lower(entered)
        store == [games EXCEPT ![i].filtered = Filtered(text, games[i])]
    IN /\ games' = store
       /\ SetLibraryChildOn(store)
       /\ UNCHANGED <<now, pc, records, lutrisVars, desktopVars>>

WindowNextStep ==
  \/ set_library_child
  \/ filter_func

SpecWindow == WindowInit /\ [][WindowNextStep]_vars

\* The games that count for one library.
ClaimCounted(in_hidden) ==
  {i \in DOMAIN games :
     /\ ~games[i].removed
     /\ ~games[i].blacklisted
     /\ games[i].hidden = in_hidden}

ClaimNotice(in_hidden, empty, no_results) ==
  IF ClaimCounted(in_hidden) = {} THEN empty
  ELSE IF \A i \in ClaimCounted(in_hidden) : games[i].filtered THEN no_results
  ELSE "None"

\* C13: after set_library_child, for each library and whatever the order of
\* the store: the empty notice is chosen when no game counts, the no-results
\* notice when at least one counts and all that count are filtered, and no
\* notice when one that counts is unfiltered; with no notice chosen neither
\* notice is on the overlay.
C13_NoticeChosen ==
  child # Unset =>
    /\ child = ClaimNotice(FALSE, "notice_empty", "notice_no_results")
    /\ hidden_child
         = ClaimNotice(TRUE, "hidden_notice_empty", "hidden_notice_no_results")
    /\ child = "None" => library_overlay = {}
    /\ hidden_child = "None" => hidden_library_overlay = {}
    /\ child # "None" => child \in library_overlay
    /\ hidden_child # "None" => hidden_child \in hidden_library_overlay

\* An unfiltered game stands before a filtered one in the same library.
C13_Witness ==
  /\ child = "None"
  /\ Len(games) = 2
  /\ ClaimCounted(FALSE) = {1, 2}
  /\ ~games[1].filtered
  /\ games[2].filtered

====
